---- MODULE Spec2Model ----
(***************************************************************************)
(* A model of the books / ratings store of BooksCollection.py (Part 1) and *)
(* of the HTTP handlers of BooksAPI.py (Part 2) that drive it, and of the  *)
(* loan store of LoansCollection.py with the handlers of LoansAPI.py.      *)
(*                                                                         *)
(* Strings are TLA+ strings; a Python dict is a function whose domain is   *)
(* its set of keys; a Python list is a sequence.  A float that the code    *)
(* only adds, divides and compares is an exact fraction <<n, d>> in lowest *)
(* terms with d > 0, which is equal / ordered exactly as the float is for  *)
(* the small values that occur here; <<1, 0>> is the float inf, which the  *)
(* JSON number 1e999 parses to.                                            *)
(***************************************************************************)
EXTENDS Integers, Sequences, FiniteSets, TLC

VARIABLES
    books,      \* db["books"]: the list of book dicts
    ratings,    \* db["ratings"]: the list of rating dicts
    api_key,    \* BooksCollection.api_key, "" when no key could be loaded
    used,       \* the uuids and ObjectIds handed out so far
    loans,      \* the documents of the loans collection, in insertion order
    driver,     \* what the installed MongoDB driver and the stored ids are like
    requests,   \* the POST /loans requests being served, one per server thread
    last        \* the last request served and its response

vars == <<books, ratings, api_key, used, loans, driver, requests, last>>

(***************************************************************************)
(* Bounds of the model.                                                    *)
(***************************************************************************)
\* successful inserts of a run under Spec
MaxInserts == 2
\* ratings the store can hold under SpecRatings
MaxRates == 3
\* ratings one aggregate can receive under SpecTop
TopMaxRates == 3

(***************************************************************************)
(* Text helpers.                                                           *)
(***************************************************************************)
Digits == {"0", "1", "2", "3", "4", "5", "6", "7", "8", "9"}

CharAt(s, i) == SubSeq(s, i, i)

AllDigits(s, from, to) == \A i \in from..to : CharAt(s, i) \in Digits

\* Python's `$` also matches just before one trailing newline.
StripFinalNewline(s) ==
    IF Len(s) > 0 /\ CharAt(s, Len(s)) = "\n" THEN SubSeq(s, 1, Len(s) - 1) ELSE s

\* " and ".join(list)
RECURSIVE JoinAnd(_)
JoinAnd(list) ==
    IF Len(list) = 0 THEN ""
    ELSE IF Len(list) = 1 THEN list[1]
    ELSE list[1] \o " and " \o JoinAnd(Tail(list))

(***************************************************************************)
(* Exact arithmetic on the floats of the ratings.                          *)
(***************************************************************************)
Abs(n) == IF n < 0 THEN -n ELSE n

RECURSIVE GCD(_, _)
GCD(a, b) == IF b = 0 THEN a ELSE GCD(b, a % b)

Frac(n, d) ==
    LET g == GCD(Abs(n), d) IN <<n \div g, d \div g>>

FracAdd(a, b) == Frac(a[1] * b[2] + b[1] * a[2], a[2] * b[2])

FracLt(a, b) == a[1] * b[2] < b[1] * a[2]

\* int(x): truncation towards zero
TruncInt(x) == IF x[1] >= 0 THEN x[1] \div x[2] ELSE -((-x[1]) \div x[2])

RECURSIVE FracSum(_)
FracSum(values) ==
    IF Len(values) = 0 THEN <<0, 1>>
    ELSE FracAdd(values[1], FracSum(Tail(values)))

\* statistics.mean(values), for a non-empty list
mean(values) ==
    LET s == FracSum(values) IN Frac(s[1], s[2] * Len(values))

(***************************************************************************)
(* BooksCollection: validation.                                            *)
(***************************************************************************)
valid_genres ==
    {"Fiction", "Children", "Biography", "Science", "Science Fiction", "Fantasy", "Other"}

validate_title(title) == Len(title) > 0

validate_genre(genre) == genre \in valid_genres

\* re.match(r'^\d{4}(-\d{2}-\d{2})?$', date)
validate_publish_date(date) ==
    LET s == StripFinalNewline(date) IN
    \/ Len(s) = 4 /\ AllDigits(s, 1, 4)
    \/ /\ Len(s) = 10
       /\ AllDigits(s, 1, 4)
       /\ CharAt(s, 5) = "-"
       /\ AllDigits(s, 6, 7)
       /\ CharAt(s, 8) = "-"
       /\ AllDigits(s, 9, 10)

\* The probe of the first record, then the linear scan.  `len == 1` compares
\* the builtin with 1 and is never true, so the list itself is returned.
search_by_field(bks, field, value) ==
    IF Len(bks) > 0 /\ field \notin DOMAIN bks[1] THEN <<>>
    ELSE SelectSeq(bks, LAMBDA book : book[field] = value)

\* mutant: the length is checked, the uniqueness is not
validate_isbn_length_only(bks, isbn) == Len(isbn) = 13

validate_isbn(bks, isbn) ==
    Len(isbn) = 13 /\ Len(search_by_field(bks, "ISBN", isbn)) = 0

\* mutant: the title is not looked at
validate_data_any_title(bks, title, isbn, genre) ==
    validate_genre(genre) /\ validate_isbn(bks, isbn)

validate_data(bks, title, isbn, genre) ==
    validate_title(title) /\ validate_genre(genre) /\ validate_isbn(bks, isbn)

(***************************************************************************)
(* BooksCollection: the enrichment clients.  `response` is what the        *)
(* provider answered: [kind |-> "error"] is a RequestException,            *)
(* [kind |-> "json", found |-> 0] a well-formed answer with no result, and *)
(* [kind |-> "json", found |-> n, info |-> dict] one with results.  The    *)
(* results modelled carry every field.                                     *)
(***************************************************************************)
get_book_google_data(response) ==
    IF response.kind = "error" THEN <<[error |-> "request failed"], 400>>
    ELSE IF response.found = 0 THEN <<[error |-> "no items returned"], 400>>
    ELSE <<[authors |-> response.info.authors,
            publisher |-> response.info.publisher,
            publishedDate |-> response.info.publishedDate], 200>>

get_book_open_lib_data(response) ==
    IF response.kind = "error" THEN <<[error |-> "request failed"], 400>>
    ELSE IF response.found = 0 THEN <<[error |-> "no items returned"], 400>>
    ELSE <<[language |-> response.info.language], 200>>

\* [raised |-> TRUE] when the generative model call raises.
get_book_ai_info(key, ai) ==
    IF key = "" THEN [raised |-> FALSE, text |-> "AI service unavailable."]
    ELSE IF ai.kind = "error" THEN [raised |-> TRUE, text |-> ""]
    ELSE [raised |-> FALSE, text |-> ai.text]

\* str(uuid.uuid4()): a token no earlier call returned.  The tokens are only
\* ever compared for equality, so the next unused one stands for any of them.
uuid4(issued) == "id" \o ToString(Cardinality(issued) + 1)

(***************************************************************************)
(* A value that is a Python str in one record and a list in another is     *)
(* tagged, so that the two stay comparable: <<"str", s>> or                *)
(* <<"list", e1, ..., en>>.  Only "language" is such a field.              *)
(***************************************************************************)
PyStr(s) == <<"str", s>>

PyList(list) == <<"list">> \o list

(***************************************************************************)
(* BooksCollection.insert_book.  The result is the new db, the returned    *)
(* id and status; status 500 stands for an exception that leaves           *)
(* insert_book (KeyError on the error dict, or the generative call         *)
(* raising), after which nothing was appended.  `ai` records the summary   *)
(* call: 0 when it was not made, 500 when it raised, 200 otherwise.        *)
(***************************************************************************)
Raised(bks, rts, ai) ==
    [books |-> bks, ratings |-> rts, id |-> "None", status |-> 500, ai |-> ai]

insert_with_id(bks, rts, key, book_id, title, isbn, genre, google, openlib, ai) ==
    IF ~validate_data(bks, title, isbn, genre)
    THEN [books |-> bks, ratings |-> rts, id |-> "None", status |-> 422, ai |-> 0]
    ELSE
      LET book_google_api_data == get_book_google_data(google)[1]
          book_open_lib_api_data == get_book_open_lib_data(openlib)[1]
          \* the second assignment overwrites the first
          response_code == get_book_open_lib_data(openlib)[2]
      IN
      IF response_code = 200 /\ "authors" \notin DOMAIN book_google_api_data
      THEN Raised(bks, rts, 0)
      ELSE
        LET enriched == response_code = 200
            authors == IF enriched THEN JoinAnd(book_google_api_data["authors"])
                       ELSE "missing"
            publisher == IF enriched THEN book_google_api_data["publisher"]
                         ELSE "missing"
            published_date ==
                IF enriched /\ validate_publish_date(book_google_api_data["publishedDate"])
                THEN book_google_api_data["publishedDate"]
                ELSE "missing"
            language == IF enriched THEN PyList(book_open_lib_api_data["language"])
                        ELSE PyStr("missing")
            summary == get_book_ai_info(key, ai)
            book == [title |-> title, authors |-> authors, ISBN |-> isbn,
                     publisher |-> publisher, publishedDate |-> published_date,
                     genre |-> genre, language |-> language,
                     summary |-> summary.text, id |-> book_id]
        IN
        IF summary.raised THEN Raised(bks, rts, 500)
        ELSE [books |-> Append(bks, book),
              ratings |-> Append(rts, [values |-> <<>>, average |-> <<0, 1>>,
                                       title |-> title, id |-> book_id]),
              id |-> book_id, status |-> 201, ai |-> IF key = "" THEN 0 ELSE 200]

\* mutant: the id is the position of the new book in the list
insert_book_positional_id(bks, rts, key, issued, title, isbn, genre, google, openlib, ai) ==
    insert_with_id(bks, rts, key, "id" \o ToString(Len(bks) + 1),
                   title, isbn, genre, google, openlib, ai)

insert_book(bks, rts, key, issued, title, isbn, genre, google, openlib, ai) ==
    insert_with_id(bks, rts, key, uuid4(issued), title, isbn, genre, google, openlib, ai)

(***************************************************************************)
(* BooksCollection.update_book, delete_book, rate_book.  Status 500 of     *)
(* rate_book stands for the exception of int(rate).                        *)
(***************************************************************************)
\* for field, value in put_values.items(): book[field] = value
Overwrite(book, put_values) ==
    [f \in DOMAIN book \cup DOMAIN put_values |->
        IF f \in DOMAIN put_values THEN put_values[f] ELSE book[f]]

\* index of the first element of seq with this id, 0 when there is none
FirstIndex(seq, id) ==
    IF \E i \in DOMAIN seq : seq[i].id = id
    THEN CHOOSE i \in DOMAIN seq :
            seq[i].id = id /\ \A j \in 1..(i - 1) : seq[j].id # id
    ELSE 0

\* mutant: the record is replaced by the payload
update_book_replaces_record(bks, put_values) ==
    LET id_value == put_values["id"]
        i == FirstIndex(bks, id_value)
    IN
    IF ~validate_genre(put_values["genre"])
    THEN [books |-> bks, id |-> "None", status |-> 422]
    ELSE IF i # 0
    THEN [books |-> [bks EXCEPT ![i] = put_values],
          id |-> id_value, status |-> 200]
    ELSE [books |-> bks, id |-> "None", status |-> 404]

update_book(bks, put_values) ==
    LET id_value == put_values["id"]
        i == FirstIndex(bks, id_value)
    IN
    IF ~validate_genre(put_values["genre"])
    THEN [books |-> bks, id |-> "None", status |-> 422]
    ELSE IF i # 0
    THEN [books |-> [bks EXCEPT ![i] = Overwrite(bks[i], put_values)],
          id |-> id_value, status |-> 200]
    ELSE [books |-> bks, id |-> "None", status |-> 404]

\* mutant: the list is cut at the book
delete_book_truncates(bks, book_id) ==
    LET idx == FirstIndex(bks, book_id) IN
    IF idx # 0
    THEN [books |-> SubSeq(bks, 1, idx - 1), id |-> book_id, status |-> 200]
    ELSE [books |-> bks, id |-> "None", status |-> 404]

delete_book(bks, book_id) ==
    LET idx == FirstIndex(bks, book_id) IN
    IF idx # 0
    THEN [books |-> SubSeq(bks, 1, idx - 1) \o SubSeq(bks, idx + 1, Len(bks)),
          id |-> book_id, status |-> 200]
    ELSE [books |-> bks, id |-> "None", status |-> 404]

\* int(rate) raises OverflowError for an infinity
IntRaises(rate) == rate[2] = 0

\* float(int(rate)) == rate and int(rate) in [1, 2, 3, 4, 5]
\* mutant: the value is truncated before it is checked
valid_rate_truncated(rate) == TruncInt(rate) \in {1, 2, 3, 4, 5}

valid_rate(rate) == Frac(TruncInt(rate), 1) = rate /\ TruncInt(rate) \in {1, 2, 3, 4, 5}

\* mutant: the average is updated from the old average, not recomputed
rate_book_running_average(rts, book_id, rate) ==
    LET i == FirstIndex(rts, book_id) IN
    IF IntRaises(rate)
    THEN [ratings |-> rts, id |-> "None", average |-> <<0, 1>>, status |-> 500]
    ELSE IF ~valid_rate(rate)
    THEN [ratings |-> rts, id |-> "None", average |-> <<0, 1>>, status |-> 422]
    ELSE IF i # 0
    THEN LET sum == FracAdd(rts[i].average, rate)
             updated == [rts EXCEPT ![i] = [@ EXCEPT !.values = Append(@, rate),
                                                     !.average = Frac(sum[1], sum[2] * 2)]]
         IN [ratings |-> updated, id |-> book_id,
             average |-> updated[i].average, status |-> 201]
    ELSE [ratings |-> rts, id |-> "None", average |-> <<0, 1>>, status |-> 404]

rate_book(rts, book_id, rate) ==
    LET i == FirstIndex(rts, book_id) IN
    IF IntRaises(rate)
    THEN [ratings |-> rts, id |-> "None", average |-> <<0, 1>>, status |-> 500]
    ELSE IF ~valid_rate(rate)
    THEN [ratings |-> rts, id |-> "None", average |-> <<0, 1>>, status |-> 422]
    ELSE IF i # 0
    THEN LET values == Append(rts[i].values, rate)
             updated == [rts EXCEPT ![i] = [@ EXCEPT !.values = values,
                                                     !.average = mean(values)]]
         IN [ratings |-> updated, id |-> book_id,
             average |-> updated[i].average, status |-> 201]
    ELSE [ratings |-> rts, id |-> "None", average |-> <<0, 1>>, status |-> 404]

(***************************************************************************)
(* BooksCollection.get_top.                                                *)
(***************************************************************************)
\* sorted(averages, reverse=True)
RECURSIVE SortedDesc(_)
SortedDesc(averages) ==
    IF averages = {} THEN <<>>
    ELSE LET top == CHOOSE a \in averages : \A b \in averages : ~FracLt(a, b)
         IN <<top>> \o SortedDesc(averages \ {top})

\* mutant: the number of values of an aggregate is not checked
RECURSIVE FlattenUnchecked(_, _)
FlattenUnchecked(keys, rts) ==
    IF Len(keys) = 0 THEN <<>>
    ELSE SelectSeq(rts, LAMBDA rating : rating.average = keys[1])
         \o FlattenUnchecked(Tail(keys), rts)

\* top_books: for each key the aggregates with at least 3 values and that
\* average; list(chain.from_iterable(top_books.values())): their lists,
\* in the order of the keys
RECURSIVE Flatten(_, _)
Flatten(keys, rts) ==
    IF Len(keys) = 0 THEN <<>>
    ELSE SelectSeq(rts, LAMBDA rating :
                        Len(rating.values) >= 3 /\ rating.average = keys[1])
         \o Flatten(Tail(keys), rts)

get_top(rts) ==
    LET relevant_ratings ==
            {rts[i].average : i \in {j \in DOMAIN rts : Len(rts[j].title) >= 3}}
        sorted == SortedDesc(relevant_ratings)
        top_ratings == SubSeq(sorted, 1, IF Len(sorted) < 3 THEN Len(sorted) ELSE 3)
    IN Flatten(top_ratings, rts)

(***************************************************************************)
(* BooksAPI: the handlers.  A request is a record; one whose Content-Type  *)
(* is not application/json is answered 415 before its body is read, and    *)
(* carries no body here.  `last` records the handler, the request, the     *)
(* status answered, the id the collection returned ("None" for None), and  *)
(* what insert_book got from its providers: the status codes of the two    *)
(* enrichment clients and whether the summary call raised (0 when a        *)
(* provider was not called).                                               *)
(***************************************************************************)
JSON == "application/json"

Response(op, req, status, id) ==
    [op |-> op, req |-> req, status |-> status, id |-> id,
     google |-> 0, openlib |-> 0, ai |-> 0]

\* Books.post
Books_post(req, google, openlib, ai) ==
    IF req.content_type # JSON
    THEN /\ last' = Response("Books.post", req, 415, "None")
         /\ UNCHANGED <<books, ratings, api_key, used, loans, driver, requests>>
    ELSE LET r == insert_book(books, ratings, api_key, used,
                              req.title, req.ISBN, req.genre, google, openlib, ai)
         IN /\ books' = r.books
            /\ ratings' = r.ratings
            /\ used' = IF r.status = 201 THEN used \cup {r.id} ELSE used
            /\ last' = IF r.status = 422
                       THEN Response("Books.post", req, 422, r.id)
                       ELSE [Response("Books.post", req, r.status, r.id)
                             EXCEPT !.google = get_book_google_data(google)[2],
                                    !.openlib = get_book_open_lib_data(openlib)[2],
                                    !.ai = r.ai]
            /\ UNCHANGED <<api_key, loans, driver, requests>>

\* BooksId.put: the body's publishedDate is passed on as "publishedData"
BooksId_put(req) ==
    IF req.content_type # JSON
    THEN /\ last' = Response("BooksId.put", req, 415, "None")
         /\ UNCHANGED <<books, ratings, api_key, used, loans, driver, requests>>
    ELSE LET put_values == [title |-> req.title, authors |-> req.authors,
                            ISBN |-> req.ISBN, publisher |-> req.publisher,
                            publishedData |-> req.publishedDate,
                            genre |-> req.genre, id |-> req.book_id]
             r == update_book(books, put_values)
         IN /\ books' = r.books
            /\ last' = Response("BooksId.put", req,
                                IF r.status \in {200, 404} THEN r.status ELSE 422, r.id)
            /\ UNCHANGED <<ratings, api_key, used, loans, driver, requests>>

\* BooksId.delete
BooksId_delete(req) ==
    LET r == delete_book(books, req.book_id)
    IN /\ books' = r.books
       /\ last' = Response("BooksId.delete", req, r.status, r.id)
       /\ UNCHANGED <<ratings, api_key, used, loans, driver, requests>>

\* RatingsIdValues.post
RatingsIdValues_post(req) ==
    IF req.content_type # JSON
    THEN /\ last' = Response("RatingsIdValues.post", req, 415, "None")
         /\ UNCHANGED <<books, ratings, api_key, used, loans, driver, requests>>
    ELSE LET r == rate_book(ratings, req.book_id, req.value)
         IN /\ ratings' = r.ratings
            /\ last' = Response("RatingsIdValues.post", req,
                                IF r.status \in {201, 404, 500} THEN r.status ELSE 422,
                                r.id)
            /\ UNCHANGED <<books, api_key, used, loans, driver, requests>>

(***************************************************************************)
(* The requests and provider answers the model draws from.                 *)
(***************************************************************************)
ISBN_DUNE == "9780441013593"
ISBN_EMMA == "9780141439587"

Titles == {"", "Dune"}
ISBNs == {ISBN_DUNE, ISBN_EMMA, "123"}
Genres == {"Fiction", "Jokes"}

\* what the metadata provider knows about an ISBN
VolumeInfo(isbn) ==
    IF isbn = ISBN_DUNE
    THEN [authors |-> <<"Frank Herbert">>, publisher |-> "Ace",
          publishedDate |-> "1965-08-01"]
    ELSE [authors |-> <<"Jane Austen", "Fiona Stafford">>, publisher |-> "Penguin",
          publishedDate |-> "May 2003"]

GoogleResponses(isbn) ==
    {[kind |-> "error"], [kind |-> "json", found |-> 0],
     [kind |-> "json", found |-> 1, info |-> VolumeInfo(isbn)]}

OpenLibResponses ==
    {[kind |-> "error"], [kind |-> "json", found |-> 0],
     [kind |-> "json", found |-> 1, info |-> [language |-> <<"eng">>]]}

AiResponses == {[kind |-> "error"], [kind |-> "text", text |-> "A summary."]}

NotJson == [content_type |-> "text/plain"]

PostBooksRequests ==
    {NotJson} \cup
    {[content_type |-> JSON, title |-> t, ISBN |-> i, genre |-> g] :
        t \in Titles, i \in ISBNs, g \in Genres}

BookIds == {"id" \o ToString(n) : n \in 1..MaxInserts}

PutBooksRequests ==
    {NotJson} \cup
    {[content_type |-> JSON, book_id |-> b, title |-> "Emma", authors |-> "Jane Austen",
      ISBN |-> i, publisher |-> "Penguin", publishedDate |-> "1815", genre |-> g] :
        b \in BookIds, i \in {ISBN_DUNE, ISBN_EMMA}, g \in Genres}

DeleteBooksRequests == {[book_id |-> b] : b \in BookIds}

(***************************************************************************)
(* Spec: the book store under POST /books, PUT and DELETE /books/{id}.     *)
(***************************************************************************)
Init ==
    /\ books = <<>>
    /\ ratings = <<>>
    /\ api_key \in {"", "KEY"}
    /\ used = {}
    /\ loans = <<>>
    /\ driver = [cursor_count |-> TRUE, object_ids |-> FALSE]
    /\ requests = <<>>
    /\ last = Response("none", NotJson, 0, "None")

\* insert_book calls the providers only for a request that passes validation
CallsProviders(req) ==
    req # NotJson /\ validate_data(books, req.title, req.ISBN, req.genre)

NoAnswer == [kind |-> "error"]

PostBook ==
    \E req \in PostBooksRequests :
      IF CallsProviders(req)
      THEN /\ Cardinality(used) < MaxInserts
           /\ \E google \in GoogleResponses(req.ISBN) :
                \E openlib \in OpenLibResponses, ai \in AiResponses :
                  Books_post(req, google, openlib, ai)
      ELSE Books_post(req, NoAnswer, NoAnswer, NoAnswer)

PutBook == \E req \in PutBooksRequests : BooksId_put(req)

DeleteBook == \E req \in DeleteBooksRequests : BooksId_delete(req)

Next == PostBook \/ PutBook \/ DeleteBook

Spec == Init /\ [][Next]_vars

(***************************************************************************)
(* SpecRatings: the rating store under POST /books, DELETE /books/{id} and *)
(* POST /ratings/{id}/values.  The books come from an acquisition list, in *)
(* its order, while both providers have no result and no API key is set.   *)
(***************************************************************************)
Catalog ==
    << [content_type |-> JSON, title |-> "It", ISBN |-> "9781501142970", genre |-> "Fiction"],
       [content_type |-> JSON, title |-> "Dune", ISBN |-> ISBN_DUNE, genre |-> "Science Fiction"],
       [content_type |-> JSON, title |-> "Emma", ISBN |-> ISBN_EMMA, genre |-> "Fiction"],
       [content_type |-> JSON, title |-> "Ulysses", ISBN |-> "9780199535675", genre |-> "Fiction"],
       [content_type |-> JSON, title |-> "Hamlet", ISBN |-> "9780141396507", genre |-> "Fiction"] >>

NoResult == [kind |-> "json", found |-> 0]

\* the rating values of the requests: 0, 3, 5, 6, 3.5, -1 and 1e999
RateValues == {<<0, 1>>, <<3, 1>>, <<5, 1>>, <<6, 1>>, <<7, 2>>, <<-1, 1>>, <<1, 0>>}

RateRequests ==
    {NotJson} \cup
    {[content_type |-> JSON, book_id |-> b, value |-> v] : b \in BookIds, v \in RateValues}

\* the request appends a rating
Appends(req) ==
    req # NotJson /\ rate_book(ratings, req.book_id, req.value).status = 201

RECURSIVE Stored(_)
Stored(rts) == IF Len(rts) = 0 THEN 0 ELSE Len(rts[1].values) + Stored(Tail(rts))

InitRatings == Init /\ api_key = ""

PostCatalogued(list) ==
    /\ Cardinality(used) < Len(list)
    /\ Books_post(list[Cardinality(used) + 1], NoResult, NoResult, NoAnswer)

RateBook ==
    \E req \in RateRequests :
        /\ Appends(req) => Stored(ratings) < MaxRates
        /\ RatingsIdValues_post(req)

NextRatings ==
    \/ PostCatalogued(SubSeq(Catalog, 1, MaxInserts))
    \/ DeleteBook
    \/ RateBook

SpecRatings == InitRatings /\ [][NextRatings]_vars

(***************************************************************************)
(* SpecTop: the rating store under POST /books and valid ratings of 1 and  *)
(* 5 for the four books of the acquisition list whose titles have at least *)
(* three characters.  get_top reads of an aggregate only its title, the    *)
(* number of its values and their mean, which do not depend on the order   *)
(* of the values: the 1s of a book are sent before its 5s.                 *)
(***************************************************************************)
TopCatalog == Tail(Catalog)

TopRateRequests ==
    {[content_type |-> JSON, book_id |-> b, value |-> v] :
        b \in {"id" \o ToString(n) : n \in 1..Len(TopCatalog)},
        v \in {<<1, 1>>, <<5, 1>>}}

\* the aggregate of the request has fewer than TopMaxRates values, none of
\* them greater than the request's
InOrder(req) ==
    \A i \in DOMAIN ratings :
        ratings[i].id = req.book_id
            => /\ Len(ratings[i].values) < TopMaxRates
               /\ \A k \in DOMAIN ratings[i].values :
                     ~FracLt(req.value, ratings[i].values[k])

TopRateBook ==
    \E req \in TopRateRequests :
        InOrder(req) /\ RatingsIdValues_post(req)

NextTop == PostCatalogued(TopCatalog) \/ TopRateBook

SpecTop == InitRatings /\ [][NextTop]_vars

(***************************************************************************)
(* LoansCollection.  The loans and books collections are sequences of      *)
(* documents in insertion order; the `id` of a book document is its `_id`. *)
(* An absent document (None) is <<>>, a found one is <<document>>.         *)
(*                                                                         *)
(* Two things insert_loan relies on are not decided by the source:         *)
(*   driver.cursor_count - Cursor.count() exists (PyMongo 3) or raises     *)
(*                         AttributeError (PyMongo 4);                     *)
(*   driver.object_ids   - the `_id` of a book document is an ObjectId, on *)
(*                         which `'_id' in book` of convert_id_to_string   *)
(*                         raises TypeError, or a str, which it returns.   *)
(* Status 500 stands for such an exception leaving the method.             *)
(***************************************************************************)
validate_member_name(name) == Len(name) > 0

\* re.match(r'^\d{4}-\d{2}-\d{2}$', date)
validate_loan_date(date) ==
    LET s == StripFinalNewline(date) IN
    /\ Len(s) = 10
    /\ AllDigits(s, 1, 4)
    /\ CharAt(s, 5) = "-"
    /\ AllDigits(s, 6, 7)
    /\ CharAt(s, 8) = "-"
    /\ AllDigits(s, 9, 10)

\* collection.find_one({field: value})
find_one(collection, field, value) ==
    LET found == SelectSeq(collection, LAMBDA doc : doc[field] = value)
    IN IF Len(found) = 0 THEN <<>> ELSE <<found[1]>>

validate_and_return_isbn(lns, bks, isbn) ==
    IF Len(isbn) # 13 \/ find_one(lns, "ISBN", isbn) # <<>>
    THEN <<>>
    ELSE find_one(bks, "ISBN", isbn)

\* LoansCollection.validate_data(name, loan_date, isbn)
LoansCollection_validate_data(lns, bks, name, loan_date, isbn) ==
    LET book_document == validate_and_return_isbn(lns, bks, isbn)
    IN IF validate_member_name(name) /\ validate_loan_date(loan_date)
          /\ book_document # <<>>
       THEN book_document
       ELSE <<>>

\* the ObjectId the server gives an inserted document
ObjectId(issued) == "oid" \o ToString(Cardinality(issued) + 1)

\* mutant: a third loan is let through, a fourth is not
insert_loan_over_two(lns, bks, drv, issued, member_name, isbn, loan_date) ==
    LET book_document ==
            LoansCollection_validate_data(lns, bks, member_name, isbn, loan_date)
        held == Len(SelectSeq(lns, LAMBDA loan : loan.memberName = member_name))
        inserted_id == ObjectId(issued)
    IN IF book_document = <<>> THEN [loans |-> lns, id |-> "None", status |-> 422]
       ELSE IF ~drv.cursor_count THEN [loans |-> lns, id |-> "None", status |-> 500]
       ELSE IF held > 2 THEN [loans |-> lns, id |-> "None", status |-> 422]
       ELSE IF drv.object_ids THEN [loans |-> lns, id |-> "None", status |-> 500]
       ELSE [loans |-> Append(lns, [_id |-> inserted_id,
                                    memberName |-> member_name,
                                    ISBN |-> isbn,
                                    title |-> book_document[1].title,
                                    bookID |-> book_document[1].id,
                                    loanDate |-> loan_date,
                                    loanID |-> inserted_id]),
             id |-> inserted_id, status |-> 201]

\* insert_loan hands (member_name, isbn, loan_date) to the parameters
\* (name, loan_date, isbn) of validate_data
insert_loan(lns, bks, drv, issued, member_name, isbn, loan_date) ==
    LET book_document ==
            LoansCollection_validate_data(lns, bks, member_name, isbn, loan_date)
        held == Len(SelectSeq(lns, LAMBDA loan : loan.memberName = member_name))
        inserted_id == ObjectId(issued)
    IN IF book_document = <<>> THEN [loans |-> lns, id |-> "None", status |-> 422]
       ELSE IF ~drv.cursor_count THEN [loans |-> lns, id |-> "None", status |-> 500]
       ELSE IF held >= 2 THEN [loans |-> lns, id |-> "None", status |-> 422]
       ELSE IF drv.object_ids THEN [loans |-> lns, id |-> "None", status |-> 500]
       ELSE [loans |-> Append(lns, [_id |-> inserted_id,
                                    memberName |-> member_name,
                                    ISBN |-> isbn,
                                    title |-> book_document[1].title,
                                    bookID |-> book_document[1].id,
                                    loanDate |-> loan_date,
                                    loanID |-> inserted_id]),
             id |-> inserted_id, status |-> 201]

\* delete(loanId) of the loan store: not-found for an unknown id, else the
\* loan is removed
delete_loan(lns, loan_id) ==
    IF find_one(lns, "_id", loan_id) = <<>>
    THEN [loans |-> lns, id |-> "None", status |-> 404, deleted |-> <<>>]
    ELSE [loans |-> SelectSeq(lns, LAMBDA loan : loan._id # loan_id),
          id |-> loan_id, status |-> 200,
          deleted |-> SelectSeq(lns, LAMBDA loan : loan._id = loan_id)]

LOAN_FIELDS == {"memberName", "ISBN", "title", "bookID", "loanDate", "loanID"}

\* the strings bson.ObjectId() accepts
IsObjectId(s) == Len(s) > 3 /\ SubSeq(s, 1, 3) = "oid"

\* LoansCollection.get_loans; query is the dict of the query string
get_loans(lns, query) ==
    IF DOMAIN query = {} THEN [content |-> lns, status |-> 200]
    ELSE LET renamed ==
                 IF "loanID" \in DOMAIN query
                 THEN [f \in (DOMAIN query \ {"loanID"}) \cup {"_id"} |->
                          IF f = "_id" THEN query["loanID"] ELSE query[f]]
                 ELSE query
         IN IF "_id" \in DOMAIN renamed /\ ~IsObjectId(renamed["_id"])
            THEN [content |-> <<>>, status |-> 500]
            ELSE IF \E field \in DOMAIN renamed : field \notin LOAN_FIELDS
            THEN [content |-> <<>>, status |-> 422]
            ELSE [content |-> SelectSeq(lns, LAMBDA loan :
                                 \A f \in DOMAIN renamed : loan[f] = renamed[f]),
                  status |-> 200]

(***************************************************************************)
(* LoansAPI: the handlers.  `last` keeps, as its content, the list a GET   *)
(* returned (<<>> beside a status other than 200) and the documents a      *)
(* DELETE removed.                                                         *)
(***************************************************************************)
Listing(op, req, status, content) ==
    [op |-> op, req |-> req, status |-> status, id |-> "None",
     google |-> 0, openlib |-> 0, ai |-> 0, content |-> content]

\* Loans.post
Loans_post(req) ==
    IF req.content_type # JSON
    THEN /\ last' = Response("Loans.post", req, 415, "None")
         /\ UNCHANGED <<books, ratings, api_key, used, loans, driver, requests>>
    ELSE LET r == insert_loan(loans, books, driver, used,
                              req.memberName, req.ISBN, req.loanDate)
         IN /\ loans' = r.loans
            /\ used' = IF r.status = 201 THEN used \cup {r.id} ELSE used
            /\ last' = Response("Loans.post", req,
                                IF r.status \in {201, 500} THEN r.status ELSE 422, r.id)
            /\ UNCHANGED <<books, ratings, api_key, driver, requests>>

\* Loans.get
Loans_get(req) ==
    LET r == get_loans(loans, req.query)
    IN /\ last' = Listing("Loans.get", req, r.status, r.content)
       /\ UNCHANGED <<books, ratings, api_key, used, loans, driver, requests>>

\* LoansId.delete
LoansId_delete(req) ==
    LET r == delete_loan(loans, req.loan_id)
    IN /\ loans' = r.loans
       /\ last' = [Listing("LoansId.delete", req, r.status, r.deleted)
                   EXCEPT !.id = r.id]
       /\ UNCHANGED <<books, ratings, api_key, used, driver, requests>>

(***************************************************************************)
(* SpecLoans: the loan store under POST /loans, GET /loans and             *)
(* DELETE /loans/{id}, beside a book service that puts the first MaxShelf  *)
(* books of the acquisition list into the books collection.                *)
(***************************************************************************)
\* the books the book service stores
MaxShelf == 2

\* the loans the store is asked to keep over a run
MaxLoans == 3

LOAN_DAY == "2024-01-01"

MemberNames == {"", "Ann", "Bob"}

PostLoansRequests ==
    {NotJson} \cup
    {[content_type |-> JSON, memberName |-> m, ISBN |-> i, loanDate |-> d] :
        m \in MemberNames,
        i \in {Catalog[1].ISBN, Catalog[2].ISBN, LOAN_DAY, "123"},
        d \in {LOAN_DAY, Catalog[1].ISBN, "1 May 2024"}}

LoanIds == {"oid" \o ToString(n) : n \in 1..(MaxShelf + MaxLoans)}

DeleteLoansRequests == {[loan_id |-> l] : l \in LoanIds}

GetLoansRequests ==
    {[query |-> <<>>]}
    \cup {[query |-> [f \in {"loanID"} |-> l]] : l \in LoanIds \cup {"7"}}
    \cup {[query |-> [f \in {"memberName"} |-> "Ann"]],
          [query |-> [f \in {"colour"} |-> "red"]]}

Drivers == [cursor_count : BOOLEAN, object_ids : BOOLEAN]

InitLoans ==
    /\ books = <<>>
    /\ ratings = <<>>
    /\ api_key = ""
    /\ used = {}
    /\ loans = <<>>
    /\ driver \in Drivers
    /\ requests = <<>>
    /\ last = Response("none", NotJson, 0, "None")

\* the book service stores the next book of the list
PostShelved ==
    /\ Len(books) < MaxShelf
    /\ Books_post(Catalog[Len(books) + 1], NoResult, NoResult, NoAnswer)

\* the request stores a loan
Lends(req) ==
    /\ req # NotJson
    /\ insert_loan(loans, books, driver, used,
                   req.memberName, req.ISBN, req.loanDate).status = 201

PostLoan ==
    \E req \in PostLoansRequests :
        /\ Lends(req) => Cardinality({t \in used : IsObjectId(t)}) < MaxLoans
        /\ Loans_post(req)

GetLoans == \E req \in GetLoansRequests : Loans_get(req)

DeleteLoan == \E req \in DeleteLoansRequests : LoansId_delete(req)

NextLoans == PostShelved \/ PostLoan \/ GetLoans \/ DeleteLoan

SpecLoans == InitLoans /\ [][NextLoans]_vars

(***************************************************************************)
(* BooksCollection.get_book.  query is the dict of the query string, a     *)
(* sequence of <<field, value>> pairs in the order of the string; the      *)
(* result is the list returned (<<>> for None) and the status.             *)
(***************************************************************************)
BOOK_FIELDS ==
    {"title", "authors", "ISBN", "publisher", "publishDate", "genre", "language",
     "summary", "id"}

\* Python's `value in text` for two strings
Contains(text, value) ==
    \/ Len(value) = 0
    \/ \E i \in 1..(Len(text) - Len(value) + 1) :
          SubSeq(text, i, i + Len(value) - 1) = value

\* mutant: the language is compared, not searched
InLanguage_exact(book, value) ==
    IF "language" \notin DOMAIN book THEN value = ""
    ELSE IF book.language[1] = "str" THEN book.language[2] = value
    ELSE book.language = <<"list", value>>

\* value in book.get("language", '')
InLanguage(book, value) ==
    IF "language" \notin DOMAIN book THEN value = ""
    ELSE IF book.language[1] = "str" THEN Contains(book.language[2], value)
    ELSE \E k \in 2..Len(book.language) : book.language[k] = value

\* book.get(field) == value
FieldIs(book, field, value) == field \in DOMAIN book /\ book[field] = value

\* mutant: every pair is validated before the first is applied
RECURSIVE filter_books_validated_first(_, _)
filter_books_validated_first(filtered_books, query) ==
    IF \E k \in DOMAIN query :
          \/ query[k][1] \notin BOOK_FIELDS
          \/ query[k][1] = "genre" /\ ~validate_genre(query[k][2])
    THEN [content |-> <<>>, status |-> 422]
    ELSE IF Len(query) = 0 THEN [content |-> filtered_books, status |-> 200]
    ELSE LET field == query[1][1]
             value == query[1][2]
             matching ==
                 IF field = "language"
                 THEN SelectSeq(filtered_books, LAMBDA book : InLanguage(book, value))
                 ELSE SelectSeq(filtered_books, LAMBDA book : FieldIs(book, field, value))
         IN IF Len(matching) = 0 THEN [content |-> <<>>, status |-> 200]
            ELSE filter_books_validated_first(matching, Tail(query))

\* mutant: a pair with a field or genre that is not known matches no book
RECURSIVE filter_books_unknown_matches_none(_, _)
filter_books_unknown_matches_none(filtered_books, query) ==
    IF Len(query) = 0 THEN [content |-> filtered_books, status |-> 200]
    ELSE LET field == query[1][1]
             value == query[1][2]
             matching ==
                 IF field = "language"
                 THEN SelectSeq(filtered_books, LAMBDA book : InLanguage(book, value))
                 ELSE SelectSeq(filtered_books, LAMBDA book : FieldIs(book, field, value))
         IN IF Len(matching) = 0 THEN [content |-> <<>>, status |-> 200]
            ELSE filter_books_unknown_matches_none(matching, Tail(query))

\* the loop of get_book over query.items()
RECURSIVE filter_books(_, _)
filter_books(filtered_books, query) ==
    IF Len(query) = 0 THEN [content |-> filtered_books, status |-> 200]
    ELSE LET field == query[1][1]
             value == query[1][2]
             matching ==
                 IF field = "language"
                 THEN SelectSeq(filtered_books, LAMBDA book : InLanguage(book, value))
                 ELSE SelectSeq(filtered_books, LAMBDA book : FieldIs(book, field, value))
         IN IF field \notin BOOK_FIELDS THEN [content |-> <<>>, status |-> 422]
            ELSE IF field = "genre" /\ ~validate_genre(value)
            THEN [content |-> <<>>, status |-> 422]
            ELSE IF Len(matching) = 0 THEN [content |-> <<>>, status |-> 200]
            ELSE filter_books(matching, Tail(query))

\* mutant: without pairs only the first book is returned
get_book_first_only(bks, query) ==
    IF Len(query) = 0
    THEN [content |-> SubSeq(bks, 1, IF Len(bks) > 0 THEN 1 ELSE 0), status |-> 200]
    ELSE filter_books(bks, query)

get_book(bks, query) ==
    IF Len(query) = 0 THEN [content |-> bks, status |-> 200]
    ELSE filter_books(bks, query)

\* Books.get
Books_get(req) ==
    LET r == get_book(books, req.query)
    IN /\ last' = Listing("Books.get", req, r.status, r.content)
       /\ UNCHANGED <<books, ratings, api_key, used, loans, driver, requests>>

(***************************************************************************)
(* SpecQuery: the book store under POST /books, DELETE /books/{id} and     *)
(* GET /books with a query string of up to MaxPairs pairs.  The books are  *)
(* those of the acquisition list from Dune on; for each, both providers    *)
(* have a result or neither has.                                           *)
(***************************************************************************)
MaxPairs == 2

QueryPairs ==
    {<<"genre", "Fiction">>, <<"genre", "Poetry">>, <<"title", "Dune">>,
     <<"title", "Walden">>, <<"colour", "red">>, <<"language", "eng">>,
     <<"language", "iss">>, <<"publishDate", "1965">>,
     <<"publishedDate", "missing">>}

RECURSIVE Queries(_)
Queries(n) ==
    IF n = 0 THEN {<<>>}
    ELSE Queries(n - 1) \cup
         {Append(q, pair) : q \in {p \in Queries(n - 1) : Len(p) = n - 1},
                            pair \in QueryPairs}

\* the keys of a dict are distinct
GetBooksRequests ==
    {[query |-> q] : q \in {p \in Queries(MaxPairs) :
                              \A i, j \in DOMAIN p : i # j => p[i][1] # p[j][1]}}

PostQueried ==
    /\ Cardinality(used) < MaxInserts
    /\ LET req == TopCatalog[Cardinality(used) + 1] IN
         \/ Books_post(req, NoResult, NoResult, NoAnswer)
         \/ Books_post(req, [kind |-> "json", found |-> 1, info |-> VolumeInfo(req.ISBN)],
                       [kind |-> "json", found |-> 1, info |-> [language |-> <<"eng">>]],
                       NoAnswer)

GetBooks == \E req \in GetBooksRequests : Books_get(req)

NextQuery == PostQueried \/ DeleteBook \/ GetBooks

SpecQuery == InitRatings /\ [][NextQuery]_vars

(***************************************************************************)
(* The claims.                                                             *)
(***************************************************************************)
BookIdsOf(bks) == {bks[i].id : i \in DOMAIN bks}

IsJsonRequestTo(op, l) == l.op = op /\ l.req # NotJson

\* C1: in every state reachable by insert, update and delete, no two book
\* records of the store have the same ISBN.
C1_IsbnUnique ==
    \A i, j \in DOMAIN books : i # j => books[i].ISBN # books[j].ISBN

\* C2: in every reachable state a rating aggregate with id b exists if and
\* only if a book with id b exists.
C2_AggregateIffBook == BookIdsOf(ratings) = BookIdsOf(books)

RECURSIVE SumOfNumerators(_)
SumOfNumerators(values) ==
    IF Len(values) = 0 THEN 0 ELSE values[1][1] + SumOfNumerators(Tail(values))

\* C3: in every reachable state the average of each aggregate with at least
\* one rating is the arithmetic mean of its rating sequence: with the
\* integer ratings v1..vN and the average n/d, n * N = (v1 + ... + vN) * d.
C3_AverageIsMean ==
    \A i \in DOMAIN ratings :
        LET values == ratings[i].values
            average == ratings[i].average
        IN Len(values) > 0 =>
            /\ \A k \in DOMAIN values : values[k][2] = 1
            /\ average[2] > 0
            /\ average[1] * Len(values) = SumOfNumerators(values) * average[2]

\* three ratings, not all equal, have been averaged by the last request
C3_Witness ==
    /\ IsJsonRequestTo("RatingsIdValues.post", last)
    /\ last.status = 201
    /\ \E i \in DOMAIN ratings :
          /\ ratings[i].id = last.req.book_id
          /\ Len(ratings[i].values) = 3
          /\ ratings[i].values[1] # ratings[i].values[3]
          /\ ratings[i].average[2] = 3

OneToFive == {<<1, 1>>, <<2, 1>>, <<3, 1>>, <<4, 1>>, <<5, 1>>}

\* C4: a rate request whose value is outside {1, 2, 3, 4, 5} (0, 6, -1, the
\* non-integral 3.5 and 1e999 here) is answered 422 for every id, existing
\* or not, and leaves every aggregate's rating sequence and average
\* unchanged.
C4_InvalidRateRejected ==
    [][(IsJsonRequestTo("RatingsIdValues.post", last') /\ last'.req.value \notin OneToFive)
        => (last'.status = 422 /\ ratings' = ratings)]_vars

\* the aggregates with at least 3 ratings
Qualified(rts) == {i \in DOMAIN rts : Len(rts[i].values) >= 3}

Returned(rts) == {get_top(rts)[k] : k \in DOMAIN get_top(rts)}

\* C5: in every reachable state get_top returns no aggregate with fewer than
\* 3 ratings, and the aggregates it returns have at most 3 distinct averages.
C5_TopRatedAndCapped ==
    /\ \A r \in Returned(ratings) : Len(r.values) >= 3
    /\ Cardinality({r.average : r \in Returned(ratings)}) <= 3

\* four aggregates with 3 ratings have four distinct averages, and get_top
\* returns three of them
C5_Witness ==
    /\ Cardinality({ratings[i].average : i \in Qualified(ratings)}) = 4
    /\ Cardinality(Returned(ratings)) = 3

\* C6: in every reachable state get_top returns exactly the aggregates that
\* have at least 3 ratings and whose average is one of the 3 highest distinct
\* averages of the aggregates with at least 3 ratings.
C6_TopIsTheQualifiedTop3 ==
    LET averages == {ratings[i].average : i \in Qualified(ratings)}
        top3 == {a \in averages : Cardinality({b \in averages : FracLt(a, b)}) < 3}
    IN Returned(ratings) =
        {ratings[i] : i \in {j \in Qualified(ratings) : ratings[j].average \in top3}}

\* C7: inserting a book whose ISBN is the ISBN of a stored book is answered
\* 422 whatever the title and genre are, and adds no book and no aggregate.
C7_DuplicateIsbnRejected ==
    [][(/\ IsJsonRequestTo("Books.post", last')
        /\ \E i \in DOMAIN books : books[i].ISBN = last'.req.ISBN)
        => (last'.status = 422 /\ books' = books /\ ratings' = ratings)]_vars

\* an insert that is valid but for its ISBN being stored was refused
C7_Witness ==
    /\ IsJsonRequestTo("Books.post", last)
    /\ last.status = 422
    /\ validate_title(last.req.title)
    /\ validate_genre(last.req.genre)
    /\ Len(last.req.ISBN) = 13
    /\ \E i \in DOMAIN books : books[i].ISBN = last.req.ISBN

\* C8: for every combination of outcomes of the metadata provider and the
\* language provider, an insert with a valid title, genre and unused
\* 13-character ISBN is answered 201 and stores the book, with "missing" in
\* the fields of a provider that failed (the summary call not raising).
C8_EnrichmentNeverAborts ==
    [][(/\ IsJsonRequestTo("Books.post", last')
        /\ last'.ai # 500
        /\ last'.req.title # ""
        /\ last'.req.genre \in valid_genres
        /\ Len(last'.req.ISBN) = 13
        /\ \A i \in DOMAIN books : books[i].ISBN # last'.req.ISBN)
        => (/\ last'.status = 201
            /\ Len(books') = Len(books) + 1
            /\ LET book == books'[Len(books')] IN
                 /\ book.ISBN = last'.req.ISBN
                 /\ last'.google = 400 =>
                       /\ book.authors = "missing"
                       /\ book.publisher = "missing"
                       /\ book.publishedDate = "missing"
                 /\ last'.openlib = 400 => book.language = PyStr("missing"))]_vars

\* C9: POST /books for a 13-character ISBN the metadata provider does not
\* know is answered 400 or 500, not 201.
C9_UnknownIsbnIsAnError ==
    (IsJsonRequestTo("Books.post", last) /\ last.google = 400)
        => last.status \in {400, 500}

\* C10: every successful insert returns an id that no book inserted before
\* it has, and no operation changes the id of a stored book: the ids of the
\* store stay as they are, in their order, one is appended by an insert or
\* one is removed by a delete.
IdsOf(bks) == [i \in DOMAIN bks |-> bks[i].id]

C10_IdsFreshAndImmutable ==
    [][/\ (last'.op = "Books.post" /\ last'.status = 201)
            => (/\ last'.id \notin used
                /\ IdsOf(books') = Append(IdsOf(books), last'.id))
       /\ (last'.op = "BooksId.delete" /\ last'.status = 200)
            => \E i \in DOMAIN books :
                  /\ books[i].id = last'.req.book_id
                  /\ IdsOf(books') = SubSeq(IdsOf(books), 1, i - 1)
                                        \o SubSeq(IdsOf(books), i + 1, Len(books))
       /\ (~(last'.op = "Books.post" /\ last'.status = 201)
             /\ ~(last'.op = "BooksId.delete" /\ last'.status = 200))
            => IdsOf(books') = IdsOf(books)]_vars

\* a second book got its id after the first was deleted
C10_Witness ==
    /\ last.op = "Books.post"
    /\ last.status = 201
    /\ Len(books) = 1
    /\ Cardinality(used) = 2

\* the loans the member holds
Held(lns, member) == Len(SelectSeq(lns, LAMBDA loan : loan.memberName = member))

\* C11: in every state reachable by loan inserts and deletes, no two stored
\* loans have the same ISBN.
C11_LoanIsbnUnique ==
    \A i, j \in DOMAIN loans : i # j => loans[i].ISBN # loans[j].ISBN

\* C12: in every reachable state no member name is on more than 2 stored
\* loans, and a loan insert by a member who holds exactly 2 loans is answered
\* 422 and stores no loan.
C12_MemberHoldsAtMostTwo ==
    /\ [](\A m \in MemberNames : Held(loans, m) <= 2)
    /\ [][(/\ IsJsonRequestTo("Loans.post", last')
           /\ Held(loans, last'.req.memberName) = 2)
          => (last'.status = 422 /\ loans' = loans)]_vars

\* a member with 2 loans sent a request that validate_data let through, and
\* was refused
C12_Witness ==
    /\ IsJsonRequestTo("Loans.post", last)
    /\ last.status = 422
    /\ Held(loans, last.req.memberName) = 2
    /\ LoansCollection_validate_data(loans, books, last.req.memberName,
                                     last.req.ISBN, last.req.loanDate) # <<>>

\* the request names a member, a date and the ISBN of a book in the way the
\* loan store's contract asks for
WellFormedLoan(req) ==
    /\ Len(req.memberName) > 0
    /\ validate_loan_date(req.loanDate)
    /\ Len(req.ISBN) = 13
    /\ \E b \in DOMAIN books : books[b].ISBN = req.ISBN

\* C13: a loan insert with a non-empty member name, a YYYY-MM-DD date, the
\* 13-character ISBN of an existing book that no stored loan has, and a
\* member holding fewer than 2 loans is answered 201 and stores exactly one
\* new loan, with the given ISBN and date and the title of that book.
C13_ValidLoanIsCreated ==
    [][(/\ IsJsonRequestTo("Loans.post", last')
        /\ WellFormedLoan(last'.req)
        /\ \A l \in DOMAIN loans : loans[l].ISBN # last'.req.ISBN
        /\ Held(loans, last'.req.memberName) < 2)
       => (/\ last'.status = 201
           /\ loans' = Append(loans, loans'[Len(loans')])
           /\ LET loan == loans'[Len(loans')] IN
                /\ loan.ISBN = last'.req.ISBN
                /\ loan.loanDate = last'.req.loanDate
                /\ \E b \in DOMAIN books :
                      books[b].ISBN = loan.ISBN /\ books[b].title = loan.title)]_vars

\* C14: once the loan of a book has been deleted, the next request, a loan
\* insert for that book's ISBN by a member holding fewer than 2 loans with a
\* YYYY-MM-DD date, is answered 201.
C14_LoanableAgainAfterDelete ==
    [][(/\ last.op = "LoansId.delete"
        /\ last.status = 200
        /\ IsJsonRequestTo("Loans.post", last')
        /\ WellFormedLoan(last'.req)
        /\ \E b \in DOMAIN books : /\ books[b].id = last.content[1].bookID
                                   /\ books[b].ISBN = last'.req.ISBN
        /\ \A l \in DOMAIN loans : loans[l].ISBN # last'.req.ISBN
        /\ Held(loans, last'.req.memberName) < 2)
       => last'.status = 201]_vars

\* C15: a loan insert is answered 422 and stores no loan when the member
\* name is empty, or the date is not YYYY-MM-DD, or the ISBN has not 13
\* characters, or is the ISBN of no book, or is the ISBN of a stored loan.
C15_InvalidLoanRejected ==
    [][(/\ IsJsonRequestTo("Loans.post", last')
        /\ \/ ~WellFormedLoan(last'.req)
           \/ \E l \in DOMAIN loans : loans[l].ISBN = last'.req.ISBN)
       => (last'.status = 422 /\ loans' = loans)]_vars

\* C16: a loan query whose only pair is loanID = the id of a stored loan is
\* answered 200 with exactly that loan.
C16_LoanIdAliasAccepted ==
    [][(/\ last'.op = "Loans.get"
        /\ DOMAIN last'.req.query = {"loanID"}
        /\ \E l \in DOMAIN loans : loans[l]._id = last'.req.query["loanID"])
       => (/\ last'.status = 200
           /\ Len(last'.content) = 1
           /\ last'.content[1] \in {loans[l] : l \in DOMAIN loans}
           /\ last'.content[1]._id = last'.req.query["loanID"])]_vars

\* the pair names a field get_book knows and, for genre, a genre it knows
Recognized(pair) ==
    /\ pair[1] \in BOOK_FIELDS
    /\ pair[1] = "genre" => pair[2] \in valid_genres

\* the books that satisfy the first n pairs of the query
Candidates(bks, query, n) ==
    {b \in DOMAIN bks :
        \A k \in 1..n :
            IF query[k][1] = "language" THEN InLanguage(bks[b], query[k][2])
            ELSE FieldIs(bks[b], query[k][1], query[k][2])}

\* C17: a book query with no pairs is answered 200 with exactly the books of
\* the store, each once, in the order they were inserted.
C17_EmptyQueryReturnsAll ==
    [][(last'.op = "Books.get" /\ Len(last'.req.query) = 0)
       => (/\ last'.status = 200
           /\ last'.content = books
           /\ \A i, j \in DOMAIN last'.content :
                 i # j => last'.content[i].id # last'.content[j].id)]_vars

\* all books were asked for when one of two inserted books had been deleted
C17_Witness ==
    /\ last.op = "Books.get"
    /\ Len(last.req.query) = 0
    /\ Cardinality(used) = 2
    /\ Len(last.content) = 1

\* C18: when a pair of a book query is reached with candidates left by the
\* pairs before it, and its field is not a book field or it is genre with a
\* value outside the genres, the query is answered 422 with no list.
C18_UnrecognizedPairRejected ==
    [][(/\ last'.op = "Books.get"
        /\ \E k \in DOMAIN last'.req.query :
              /\ ~Recognized(last'.req.query[k])
              /\ \A j \in 1..(k - 1) : Candidates(books, last'.req.query, j) # {})
       => (last'.status = 422 /\ last'.content = <<>>)]_vars

\* the second pair of a query was refused after the first had left a book
C18_Witness ==
    /\ last.op = "Books.get"
    /\ last.status = 422
    /\ Len(last.req.query) = 2
    /\ Recognized(last.req.query[1])
    /\ ~Recognized(last.req.query[2])
    /\ Candidates(books, last.req.query, 1) # {}

\* C19: on a non-empty store, when the pairs up to some pair are recognized
\* and leave no book, the query is answered 200 with the empty list, whatever
\* the pairs after it are.
C19_EmptiedQueryShortCircuits ==
    [][(/\ last'.op = "Books.get"
        /\ Len(books) > 0
        /\ \E k \in DOMAIN last'.req.query :
              /\ \A j \in 1..k : Recognized(last'.req.query[j])
              /\ Candidates(books, last'.req.query, k) = {})
       => (last'.status = 200 /\ last'.content = <<>>)]_vars

\* a query whose first pair left no book and whose second pair is not
\* recognized was answered with the empty list
C19_Witness ==
    /\ last.op = "Books.get"
    /\ last.status = 200
    /\ Len(books) > 0
    /\ Len(last.req.query) = 2
    /\ Recognized(last.req.query[1])
    /\ Candidates(books, last.req.query, 1) = {}
    /\ ~Recognized(last.req.query[2])

\* the keys of the put_values BooksId.put hands to update_book
SuppliedFields ==
    {"title", "authors", "ISBN", "publisher", "publishedData", "genre", "id"}

\* C20: an update with an invalid genre is answered 422 and one with an
\* unknown id 404, both leaving every book as it is; a successful update
\* gives the supplied fields of the book with that id their new values and
\* leaves its id, its other fields and every other book as they are; no
\* update changes a rating aggregate.
C20_UpdateFrame ==
    [][IsJsonRequestTo("BooksId.put", last') =>
        LET req == last'.req IN
        /\ ratings' = ratings
        /\ req.genre \notin valid_genres => (last'.status = 422 /\ books' = books)
        /\ (req.genre \in valid_genres /\ req.book_id \notin BookIdsOf(books))
              => (last'.status = 404 /\ books' = books)
        /\ (req.genre \in valid_genres /\ req.book_id \in BookIdsOf(books))
              => /\ last'.status = 200
                 /\ DOMAIN books' = DOMAIN books
                 /\ \A i \in DOMAIN books :
                       IF books[i].id # req.book_id THEN books'[i] = books[i]
                       ELSE /\ books'[i].id = books[i].id
                            /\ DOMAIN books'[i] = DOMAIN books[i] \cup SuppliedFields
                            /\ \A f \in DOMAIN books[i] \ SuppliedFields :
                                  books'[i][f] = books[i][f]
                            /\ \A f \in {"title", "authors", "ISBN", "publisher", "genre"} :
                                  books'[i][f] = req[f]]_vars

\* one of two stored books was updated: it has the new title and still has
\* the summary it was stored with, the other book has its old title
C20_Witness ==
    /\ IsJsonRequestTo("BooksId.put", last)
    /\ last.status = 200
    /\ Len(books) = 2
    /\ \E i, j \in DOMAIN books :
          /\ books[i].id = last.req.book_id
          /\ books[i].title = last.req.title
          /\ "summary" \in DOMAIN books[i]
          /\ books[j].id # last.req.book_id
          /\ books[j].title # last.req.title

\* the fields of a Book record
BookRecordFields ==
    {"title", "authors", "ISBN", "publisher", "publishedDate", "genre", "language",
     "summary", "id"}

\* C21: after a PUT /books/{id} answered 200 the stored book's title,
\* authors, ISBN, publisher, publishedDate and genre are those of the request
\* body, and the book has the fields of a Book record and no others.
C21_PutReplacesFields ==
    [][(IsJsonRequestTo("BooksId.put", last') /\ last'.status = 200)
       => \E i \in DOMAIN books' :
             /\ books'[i].id = last'.req.book_id
             /\ \A f \in {"title", "authors", "ISBN", "publisher", "publishedDate",
                          "genre"} : books'[i][f] = last'.req[f]
             /\ DOMAIN books'[i] = BookRecordFields]_vars

\* C22: a delete of the id of a stored book is answered 200 and removes that
\* book alone, a delete of an unknown id is answered 404 and changes no
\* book; neither changes a rating aggregate.
C22_DeleteFrame ==
    [][last'.op = "BooksId.delete" =>
        /\ ratings' = ratings
        /\ IF last'.req.book_id \in BookIdsOf(books)
           THEN /\ last'.status = 200
                /\ books' = SelectSeq(books, LAMBDA book : book.id # last'.req.book_id)
                /\ Len(books') = Len(books) - 1
           ELSE last'.status = 404 /\ books' = books]_vars

\* the first of two stored books was deleted; the second book and both
\* aggregates are there
C22_Witness ==
    /\ last.op = "BooksId.delete"
    /\ last.status = 200
    /\ last.req.book_id = "id1"
    /\ Len(books) = 1
    /\ books[1].id = "id2"
    /\ Len(ratings) = 2

RatingsAreOneToFive ==
    \A i \in DOMAIN ratings :
        \A k \in DOMAIN ratings[i].values : ratings[i].values[k] \in OneToFive

\* a step leaves the values of every aggregate as they are or with one more
\* value at the end
ValuesAppendOnly ==
    \A i \in DOMAIN ratings :
        /\ i \in DOMAIN ratings'
        /\ ratings'[i].id = ratings[i].id
        /\ \/ ratings'[i].values = ratings[i].values
           \/ /\ Len(ratings'[i].values) = Len(ratings[i].values) + 1
              /\ SubSeq(ratings'[i].values, 1, Len(ratings[i].values)) = ratings[i].values

\* C25, as stated: every stored rating is an integer in 1..5, every step
\* leaves each aggregate's rating sequence unchanged or extended by one
\* element at its end, and every rate request for an id that has no aggregate
\* is answered 404 and changes no aggregate.
C25_RatingsAppendOnly ==
    /\ []RatingsAreOneToFive
    /\ [][ValuesAppendOnly]_vars
    /\ [][(/\ IsJsonRequestTo("RatingsIdValues.post", last')
           /\ last'.req.book_id \notin BookIdsOf(ratings))
          => (last'.status = 404 /\ ratings' = ratings)]_vars

\* C25, amended: as above, with 404 for the rate requests for an id that has
\* no aggregate whose value is one of 1..5.
C25_RatingsAppendOnlyValidRate ==
    /\ []RatingsAreOneToFive
    /\ [][ValuesAppendOnly]_vars
    /\ [][(/\ IsJsonRequestTo("RatingsIdValues.post", last')
           /\ last'.req.value \in OneToFive
           /\ last'.req.book_id \notin BookIdsOf(ratings))
          => (last'.status = 404 /\ ratings' = ratings)]_vars

\* a rating of 1..5 for an id without aggregate was answered 404 beside an
\* aggregate that has been extended twice
C25_Witness ==
    /\ IsJsonRequestTo("RatingsIdValues.post", last)
    /\ last.status = 404
    /\ last.req.value \in OneToFive
    /\ last.req.book_id \notin BookIdsOf(ratings)
    /\ \E i \in DOMAIN ratings : Len(ratings[i].values) = 2

(***************************************************************************)
(* SpecThreads: POST /loans served by the threads of the Flask server.     *)
(* Every call that insert_loan makes on the database is a step of its own, *)
(* and the steps of two requests interleave freely: no lock is taken and   *)
(* no transaction is opened.                                               *)
(***************************************************************************)
\* the threads serving requests at the same time
Threads == 2

\* the loan requests the threads are given while the store is not full
MaxThreadLoans == 2

\* a thread that serves no request
Idle ==
    [pc |-> "idle", req |-> NotJson, book_document |-> <<>>,
     inserted_id |-> "None", seen |-> 0, status |-> 0]

ThreadRequests ==
    {NotJson} \cup
    {[content_type |-> JSON, memberName |-> m, ISBN |-> i, loanDate |-> d] :
        m \in {"Ann"},
        i \in {LOAN_DAY, Catalog[1].ISBN},
        d \in {Catalog[1].ISBN, Catalog[2].ISBN}}

\* the thread returns the response
Returns(t, req, status, id) ==
    /\ requests' = [requests EXCEPT ![t] = [@ EXCEPT !.pc = "done",
                                                     !.book_document = <<>>,
                                                     !.status = status]]
    /\ last' = Response("Loans.post", req,
                        IF status \in {201, 415, 500} THEN status ELSE 422, id)

\* mutant: the collection has a unique index on ISBN
insert_one_unique_isbn(lns, doc) ==
    IF \E i \in DOMAIN lns : lns[i].ISBN = doc.ISBN THEN lns ELSE Append(lns, doc)

\* loans_collection.insert_one(loan)
insert_one(lns, doc) == Append(lns, doc)

\* loans_collection.update_one({'_id': inserted_id}, {'$set': {'loanID': ...}})
update_one(lns, inserted_id) ==
    [i \in DOMAIN lns |->
        IF lns[i]._id = inserted_id
        THEN [_id |-> lns[i]._id, memberName |-> lns[i].memberName,
              ISBN |-> lns[i].ISBN, title |-> lns[i].title,
              bookID |-> lns[i].bookID, loanDate |-> lns[i].loanDate,
              loanID |-> inserted_id]
        ELSE lns[i]]

InitThreads ==
    /\ books = <<>>
    /\ ratings = <<>>
    /\ api_key = ""
    /\ used = {}
    /\ loans = <<>>
    /\ driver \in Drivers
    /\ requests = [t \in 1..Threads |-> Idle]
    /\ last = Response("none", NotJson, 0, "None")

\* the requests that are being served
InFlight == {t \in DOMAIN requests : requests[t].pc \notin {"idle", "done"}}

\* Loans.post up to the call of insert_loan
ReceiveLoan(t) ==
    /\ requests[t].pc \in {"idle", "done"}
    /\ \E req \in ThreadRequests :
        IF req.content_type # JSON
        THEN /\ requests' = [requests EXCEPT ![t] =
                                [Idle EXCEPT !.pc = "done", !.req = req, !.status = 415]]
             /\ last' = Response("Loans.post", req, 415, "None")
        ELSE /\ Len(loans) + Cardinality(InFlight) < MaxThreadLoans
             /\ requests' = [requests EXCEPT ![t] =
                                [Idle EXCEPT !.pc = "validate", !.req = req]]
             /\ last' = last
    /\ UNCHANGED <<books, ratings, api_key, used, loans, driver>>

\* insert_loan: validate_data, which reads the loans and the books
ValidateLoan(t) ==
    LET req == requests[t].req
        book_document ==
            LoansCollection_validate_data(loans, books, req.memberName,
                                          req.ISBN, req.loanDate)
    IN /\ requests[t].pc = "validate"
       /\ IF book_document = <<>>
          THEN Returns(t, req, 422, "None")
          ELSE /\ requests' = [requests EXCEPT ![t] =
                                  [@ EXCEPT !.pc = "count",
                                            !.book_document = book_document,
                                            !.seen = Len(loans)]]
               /\ last' = last
       /\ UNCHANGED <<books, ratings, api_key, used, loans, driver>>

\* insert_loan: the count of the member's loans
CountLoans(t) ==
    LET req == requests[t].req
    IN /\ requests[t].pc = "count"
       /\ IF ~driver.cursor_count THEN Returns(t, req, 500, "None")
          ELSE IF Held(loans, req.memberName) >= 2 THEN Returns(t, req, 422, "None")
          ELSE /\ requests' = [requests EXCEPT ![t] = [@ EXCEPT !.pc = "insert"]]
               /\ last' = last
       /\ UNCHANGED <<books, ratings, api_key, used, loans, driver>>

\* insert_loan: the loan document is built and inserted
InsertLoan(t) ==
    LET req == requests[t].req
        inserted_id == ObjectId(used)
    IN /\ requests[t].pc = "insert"
       /\ IF driver.object_ids
          THEN /\ Returns(t, req, 500, "None")
               /\ UNCHANGED <<used, loans>>
          ELSE /\ loans' = insert_one(loans,
                               [_id |-> inserted_id,
                                memberName |-> req.memberName,
                                ISBN |-> req.ISBN,
                                title |-> requests[t].book_document[1].title,
                                bookID |-> requests[t].book_document[1].id,
                                loanDate |-> req.loanDate])
               /\ used' = used \cup {inserted_id}
               /\ requests' = [requests EXCEPT ![t] =
                                  [@ EXCEPT !.pc = "update",
                                            !.inserted_id = inserted_id]]
               /\ last' = last
       /\ UNCHANGED <<books, ratings, api_key, driver>>

\* insert_loan: loanID is set on the inserted document and the id returned
SetLoanId(t) ==
    /\ requests[t].pc = "update"
    /\ loans' = update_one(loans, requests[t].inserted_id)
    /\ Returns(t, requests[t].req, 201, requests[t].inserted_id)
    /\ UNCHANGED <<books, ratings, api_key, used, driver>>

\* the book service stores the next book of the list
ShelveBook ==
    /\ Len(books) < MaxShelf
    /\ Books_post(Catalog[Len(books) + 1], NoResult, NoResult, NoAnswer)

NextThreads ==
    \/ ShelveBook
    \/ \E t \in 1..Threads : ReceiveLoan(t)
    \/ \E t \in 1..Threads : ValidateLoan(t)
    \/ \E t \in 1..Threads : CountLoans(t)
    \/ \E t \in 1..Threads : InsertLoan(t)
    \/ \E t \in 1..Threads : SetLoanId(t)

SpecThreads == InitThreads /\ [][NextThreads]_vars

\* C26: the not-currently-loaned check and the insert of a loan request are
\* separate steps with no lock between them: the insert step of a request
\* that passed the check stores its loan whatever has been stored since, so
\* two concurrent requests for one ISBN that both pass the check are both
\* stored.
C26_InsertDoesNotRecheck ==
    [][\A t \in DOMAIN requests :
          (requests[t].pc = "insert" /\ requests'[t].pc = "update")
          => /\ Len(loans') = Len(loans) + 1
             /\ loans'[Len(loans')].ISBN = requests[t].req.ISBN]_vars

\* two requests for one ISBN both passed the check while no loan was stored,
\* and both loans are stored
C26_Witness ==
    /\ DOMAIN requests = 1..Threads
    /\ \A t \in {1, 2} : requests[t].pc = "done" /\ requests[t].status = 201
                         /\ requests[t].seen = 0
    /\ requests[1].req.ISBN = requests[2].req.ISBN
    /\ \E i, j \in DOMAIN loans :
            /\ i # j
            /\ loans[i]._id = requests[1].inserted_id
            /\ loans[j]._id = requests[2].inserted_id
            /\ loans[i].ISBN = loans[j].ISBN

\* BooksCollection.get_book_ratings_by_id
get_book_ratings_by_id(rts, book_id) ==
    LET i == FirstIndex(rts, book_id)
    IN IF i # 0 THEN [rating |-> <<rts[i]>>, status |-> 200]
       ELSE [rating |-> <<>>, status |-> 404]

\* the ids of the books that were stored and have been deleted
Deleted == {id \in used : id \in BookIds /\ id \notin BookIdsOf(books)}

\* C27: once the delete of a book has succeeded, get_book_ratings_by_id of
\* its id is not-found, get_top returns no aggregate of its id, and every
\* later rate of its id with a rating of 1..5 is answered 404.
C27_DeletedBookHasNoRatings ==
    /\ [](\A id \in Deleted :
            /\ get_book_ratings_by_id(ratings, id).status = 404
            /\ \A r \in Returned(ratings) : r.id # id)
    /\ [][(/\ IsJsonRequestTo("RatingsIdValues.post", last')
           /\ last'.req.value \in OneToFive
           /\ last'.req.book_id \in Deleted)
          => last'.status = 404]_vars

\* C28: in every reachable state every stored loan has an ISBN of 13
\* characters that is the ISBN of a book of the books collection (no book
\* leaves it) and a loanDate of the form YYYY-MM-DD, and a loan insert that is
\* answered 201 got an ISBN and a loanDate that pass the test of their own
\* field and stores them in the fields ISBN and loanDate.
C28_StoredLoanIsWellFormed ==
    /\ [](\A l \in DOMAIN loans :
            /\ Len(loans[l].ISBN) = 13
            /\ \E b \in DOMAIN books : books[b].ISBN = loans[l].ISBN
            /\ validate_loan_date(loans[l].loanDate))
    /\ [][(IsJsonRequestTo("Loans.post", last') /\ last'.status = 201)
          => (/\ WellFormedLoan(last'.req)
              /\ loans'[Len(loans')].ISBN = last'.req.ISBN
              /\ loans'[Len(loans')].loanDate = last'.req.loanDate)]_vars

\* C29: a book query with a single pair on one of the fields that insert_book
\* stores in a book record (with a genre of the list when the field is genre)
\* is never answered 422.
C29_StoredFieldsAreQueryFields ==
    [][(/\ last'.op = "Books.get"
        /\ Len(last'.req.query) = 1
        /\ last'.req.query[1][1] \in BookRecordFields
        /\ last'.req.query[1][1] = "genre" => last'.req.query[1][2] \in valid_genres)
       => last'.status # 422]_vars

\* C30: in every state reachable by insert, update, delete and rate, the
\* title of each rating aggregate is the title of the stored book with the
\* same id.
C30_AggregateTitleIsBookTitle ==
    \A i \in DOMAIN ratings :
        \A b \in DOMAIN books :
            books[b].id = ratings[i].id => ratings[i].title = books[b].title

====
